---- MODULE Spec2Model ----
(***************************************************************************)
(* A model of src/lib/application.ts: Application.bootstrap,               *)
(* Application.convert, Application.expandInputFiles and the               *)
(* DeclarationReflection methods getAllSignatures, traverse and toObject.  *)
(*                                                                         *)
(* Calls into collaborators whose code is not part of the file (the        *)
(* TypeScript compiler, the file system, the option container, the plugin  *)
(* host, the converter, the super class) are modelled by their outcome:    *)
(* the outcome is an input of the action, drawn from a small set.          *)
(***************************************************************************)
EXTENDS Integers, Sequences, FiniteSets, TLC

VARIABLES
    op,          \* the operation that produced the current state
    fs,          \* the file system: node -> "file" | "dir" | "nostat"
    exclude,     \* the path strings the exclude patterns match
    allowJs,     \* compiler option allowJs
    checkJs,     \* compiler option checkJs
    logger,      \* the messages this.logger received during the last call
    inputFiles,  \* expandInputFiles: its argument
    files,       \* expandInputFiles: its result
    cvIn,        \* convert: the outcomes of its collaborators
    programs,    \* convert: the program list
    trace,       \* convert / bootstrap / traverse: the calls made, in order
    returned,    \* convert: the returned value
    bsIn,        \* bootstrap: its argument and the outcomes of its collaborators
    refl,        \* the DeclarationReflection the methods are called on
    heap,        \* the arrays of the reflection, by address
    out          \* getAllSignatures / toObject: the returned value

vars == <<op, fs, exclude, allowJs, checkJs, logger, inputFiles, files,
          cvIn, programs, trace, returned, bsIn, refl, heap, out>>

appVars == <<fs, exclude, allowJs, checkJs>>
expandVars == <<inputFiles, files>>
convertVars == <<cvIn, programs, returned>>
reflVars == <<refl, heap, out>>

(***************************************************************************)
(* Bounds of the model.                                                    *)
(***************************************************************************)
MaxEntryPoints == 2
MaxReferences == 2
MaxOptions == 2
MaxSignatures == 2
MaxTypeParameters == 2
MaxListLen == 1
MaxHeap == 10

Nothing == <<>>

\* The elements of a sequence, as a set.
Range(s) == {s[i] : i \in 1..Len(s)}

\* Sequences over S of length at most n.
SeqUpTo(S, n) == UNION {[1..k -> S] : k \in 0..n}

(***************************************************************************)
(* Paths.  A name is a sequence of characters, a path a sequence of names; *)
(* a trailing "/" is a trailing empty name.                                *)
(***************************************************************************)
EmptyName == <<>>
Dot == <<".">>
NameSrc == <<"s", "r", "c">>
NameA == <<"a", ".", "t", "s">>
NameGen == <<"g", "e", "n", ".", "t", "s">>
NameG == <<"g", ".", "t", "s", "x">>
NameB == <<"b", ".", "j", "s">>
NameNote == <<"n", ".", "m", "d">>
NameTop == <<"t", ".", "j", "s", "x">>
NameNope == <<"n", "o", "p", "e">>

PSrc == <<NameSrc>>
PA == <<NameSrc, NameA>>
PGen == <<NameSrc, NameGen>>
PG == <<NameSrc, NameGen, NameG>>
PB == <<NameSrc, NameB>>
PNote == <<NameSrc, NameNote>>
PTop == <<NameTop>>
PNope == <<NameNope>>

\* Every path the file systems of the model may hold.
Nodes == {PSrc, PA, PGen, PG, PB, PNote, PTop}

\* The order in which a directory listing names its entries.
ListingOrder == <<PA, PB, PGen, PNote, PG, PTop, PSrc>>

\* The path as one string, names separated by "/".
RECURSIVE PathString(_)
PathString(p) ==
    IF p = <<>> THEN <<>>
    ELSE IF Len(p) = 1 THEN p[1]
    ELSE p[1] \o <<"/">> \o PathString(Tail(p))

EndsWith(s, suffix) ==
    /\ Len(s) >= Len(suffix)
    /\ SubSeq(s, Len(s) - Len(suffix) + 1, Len(s)) = suffix

\* Path.resolve: "." segments and a trailing separator are dropped.
PathResolve(file) == SelectSeq(file, LAMBDA c : c # Dot /\ c # EmptyName)

\* Path.join(dir, next), dir ending in "/".
PathJoin(dir, next) == PathResolve(dir) \o <<next>>

\* normalizePath: every "\\" of the path becomes "/".
normalizePath(file) ==
    [i \in 1..Len(file) |->
        [j \in 1..Len(file[i]) |-> IF file[i][j] = "\\" THEN "/" ELSE file[i][j]]]

(***************************************************************************)
(* The file system.                                                        *)
(***************************************************************************)
Kind(p) == IF p \in DOMAIN fs THEN fs[p] ELSE "none"

\* FS.existsSync: false for a missing path and for a dangling link.
existsSync(p) == Kind(p) \in {"file", "dir"}

\* FS.statSync throws for a missing path and for a dangling link.
statSyncThrows(p) == Kind(p) \notin {"file", "dir"}

\* FS.readdirSync: the names in the directory.
readdirSync(dir) ==
    LET d == PathResolve(dir)
        inDir(p) == /\ p \in DOMAIN fs
                    /\ Len(p) = Len(d) + 1
                    /\ SubSeq(p, 1, Len(d)) = d
        listed == SelectSeq(ListingOrder, inDir)
    IN  [i \in 1..Len(listed) |-> listed[i][Len(d) + 1]]

(***************************************************************************)
(* Application.expandInputFiles                                            *)
(***************************************************************************)
\* isExcluded: some exclude pattern matches the file name.
isExcluded(fileName) == PathString(fileName) \in exclude

\* /\.tsx?$/
RegexTs(s) ==
    \/ EndsWith(s, <<".", "t", "s">>)
    \/ EndsWith(s, <<".", "t", "s", "x">>)

\* /\.[tj]sx?$/
RegexTsJs(s) ==
    \/ RegexTs(s)
    \/ EndsWith(s, <<".", "j", "s">>)
    \/ EndsWith(s, <<".", "j", "s", "x">>)

supportedFileRegexTest(file) ==
    IF allowJs \/ checkJs
    THEN RegexTsJs(PathString(file))
    ELSE RegexTs(PathString(file))

\* The exclude test of add(): skipped for an entry point.
addSkipsExcludedNoEntryPoint(file, entryPoint) == isExcluded(normalizePath(file))

addSkipsExcluded(file, entryPoint) == ~entryPoint /\ isExcluded(normalizePath(file))

RECURSIVE add(_, _, _)
RECURSIVE addEach(_, _, _, _)

\* add(file, entryPoint), acc being the files collected so far.
add(acc, file0, entryPoint) ==
    IF statSyncThrows(file0) THEN acc
    ELSE
        LET fileIsDir == Kind(file0) = "dir"
            file == IF fileIsDir /\ (file0 = <<>> \/ file0[Len(file0)] # EmptyName)
                    THEN file0 \o <<EmptyName>>
                    ELSE file0
        IN  IF addSkipsExcluded(file, entryPoint) THEN acc
            ELSE IF fileIsDir THEN addEach(acc, file, readdirSync(file), 1)
            ELSE IF supportedFileRegexTest(file) THEN Append(acc, normalizePath(file))
            ELSE acc

\* FS.readdirSync(file).forEach((next) => add(Path.join(file, next), false))
addEach(acc, dir, names, i) ==
    IF i > Len(names) THEN acc
    ELSE addEach(add(acc, PathJoin(dir, names[i]), FALSE), dir, names, i + 1)

WarnMissing(file) == [level |-> "warn", what |-> "missingEntryPoint", arg |-> file]

\* A missing entry point ends the whole loop.
expandEntryAborts(st, file) ==
    LET resolved == PathResolve(file)
    IN  IF st.log # <<>> THEN st
        ELSE IF ~existsSync(resolved)
        THEN [st EXCEPT !.log = Append(@, WarnMissing(file))]
        ELSE [st EXCEPT !.files = add(@, resolved, TRUE)]

\* One round of inputFiles.forEach.
expandEntry(st, file) ==
    LET resolved == PathResolve(file)
    IN  IF ~existsSync(resolved)
        THEN [st EXCEPT !.log = Append(@, WarnMissing(file))]
        ELSE [st EXCEPT !.files = add(@, resolved, TRUE)]

RECURSIVE expandLoop(_, _, _)
expandLoop(st, input, i) ==
    IF i > Len(input) THEN st
    ELSE expandLoop(expandEntry(st, input[i]), input, i + 1)

\* expandInputFiles(inputFiles): the files returned and the warnings logged.
expandInputFiles(input) ==
    expandLoop([files |-> <<>>, log |-> <<>>], input, 1)

(***************************************************************************)
(* The states expandInputFiles is called in.                               *)
(***************************************************************************)
\* src/ holds a.ts (possibly a dangling link), b.js, n.md and gen.ts, which
\* is a file or a directory holding g.tsx; t.jsx may lie beside src/.
FileSystems ==
    {f \in [Nodes -> {"none", "file", "dir", "nostat"}] :
        /\ f[PSrc] = "dir"
        /\ f[PA] \in {"file", "nostat"}
        /\ f[PGen] \in {"file", "dir"}
        /\ f[PG] = IF f[PGen] = "dir" THEN "file" ELSE "none"
        /\ f[PB] = "file"
        /\ f[PNote] = "file"
        /\ f[PTop] \in {"file", "none"}}

DirString(p) == PathString(p \o <<EmptyName>>)

\* What the exclude patterns may match.  A pattern that matches a path
\* matches it with a trailing "/" too.
ExcludeSets ==
    {x \in SUBSET {PathString(PA), PathString(PGen), DirString(PGen),
                   PathString(PG), PathString(PTop)} :
        PathString(PGen) \in x => DirString(PGen) \in x}

\* The entry points a caller may list: "src", "src/", "src/gen.ts",
\* "src/a.ts", "t.jsx" and "nope", which never exists.
EntryPoints == {PSrc, PSrc \o <<EmptyName>>, PGen, PA, PTop, PNope}

\* No method has been called yet.
InitCalls ==
    /\ op = "init"
    /\ logger = <<>>
    /\ inputFiles = <<>>
    /\ files = <<>>
    /\ cvIn = Nothing
    /\ programs = <<>>
    /\ trace = <<>>
    /\ returned = Nothing
    /\ bsIn = Nothing
    /\ out = Nothing

\* An application, no reflection.
InitIdle ==
    /\ InitCalls
    /\ refl = Nothing
    /\ heap = <<>>

InitExpand ==
    /\ InitIdle
    /\ fs \in FileSystems
    /\ exclude \in ExcludeSets
    /\ allowJs \in BOOLEAN
    /\ checkJs \in BOOLEAN

\* One call of expandInputFiles; the method keeps nothing between calls.
ExpandInputFiles ==
    /\ op = "init"
    /\ \E input \in SeqUpTo(EntryPoints, MaxEntryPoints) :
        LET r == expandInputFiles(input)
        IN  /\ inputFiles' = input
            /\ files' = r.files
            /\ logger' = r.log
    /\ op' = "expandInputFiles"
    /\ UNCHANGED <<appVars, convertVars, trace, bsIn, reflVars>>

NextExpand == ExpandInputFiles

SpecExpand == InitExpand /\ [][NextExpand]_vars

(***************************************************************************)
(* Claims about expandInputFiles.                                          *)
(***************************************************************************)
EntryExists(file) == existsSync(PathResolve(file))

EntryMissing(file) == ~existsSync(PathResolve(file))

\* C3: every entry point that does not exist is answered by exactly one
\* warning naming it as the caller wrote it, adds no file, and leaves the
\* expansion of the other entry points as it is without it.
C3_MissingEntryPointSkipped ==
    op = "expandInputFiles" =>
        LET missing == SelectSeq(inputFiles, EntryMissing)
            existing == SelectSeq(inputFiles, EntryExists)
        IN  /\ Len(logger) = Len(missing)
            /\ \A i \in 1..Len(missing) : logger[i] = WarnMissing(missing[i])
            /\ files = expandInputFiles(existing).files

\* A missing entry point listed before one that yields files.
C3_Witness ==
    /\ op = "expandInputFiles"
    /\ Len(inputFiles) >= 2
    /\ EntryMissing(inputFiles[1])
    /\ EntryExists(inputFiles[2])
    /\ files # <<>>

\* The file p is listed as an entry point, or lies below the entry point
\* directory e with no excluded directory between them and is not excluded.
ReachedFrom(e, p) ==
    \/ p = e
    \/ /\ Kind(e) = "dir"
       /\ Len(e) < Len(p)
       /\ SubSeq(p, 1, Len(e)) = e
       /\ \A k \in (Len(e) + 1)..(Len(p) - 1) :
            /\ Kind(SubSeq(p, 1, k)) = "dir"
            /\ DirString(SubSeq(p, 1, k)) \notin exclude
       /\ PathString(p) \notin exclude

ExpectedFiles ==
    {p \in Nodes :
        /\ Kind(p) = "file"
        /\ IF allowJs \/ checkJs THEN RegexTsJs(p[Len(p)]) ELSE RegexTs(p[Len(p)])
        /\ \E i \in 1..Len(inputFiles) :
            /\ EntryExists(inputFiles[i])
            /\ ReachedFrom(PathResolve(inputFiles[i]), p)}

\* C6: the result holds exactly the supported files that are an existing
\* entry point or lie below one with nothing excluded on the way.
C6_ExactlyReachableSupportedFiles ==
    op = "expandInputFiles" => Range(files) = ExpectedFiles

\* An excluded file is returned as an entry point while its excluded
\* neighbour directory is not descended into.
C6_Witness ==
    /\ op = "expandInputFiles"
    /\ PathString(PA) \in exclude
    /\ DirString(PGen) \in exclude
    /\ Kind(PGen) = "dir"
    /\ PSrc \in Range(inputFiles)
    /\ PA \in Range(inputFiles)
    /\ PA \in Range(files)
    /\ PB \in Range(files)
    /\ PG \notin Range(files)

(***************************************************************************)
(* Application.convert                                                     *)
(***************************************************************************)
IGNORED_DIAGNOSTICS == {1208, 1375, 1103, 2306, 2691, 2792, 5009, 5055, 5070, 7016}

\* A program: the configuration it was created from ("primary" or the name
\* of a project reference) and the place of the reference in the list the
\* primary program resolves (0 for the primary program).
Program(from, pos) == [from |-> from, pos |-> pos]

Call(name, arg) == [call |-> name, arg |-> arg]

Log(level, what, arg) == [level |-> level, what |-> what, arg |-> arg]

\* ts.createProgram({rootNames: options.getFileNames(), ...})
primaryProgram(in) == Program("primary", 0)

\* programs[0].getRootFileNames()
getRootFileNames(in) == in.rootNames

\* A program is created for every reference, whatever the root file names.
referenceProgramsAlways(in) ==
    LET refs == IF in.references.defined THEN in.references.list ELSE <<>>
        at == SelectSeq([i \in 1..Len(refs) |-> i], LAMBDA i : refs[i].resolved)
    IN  [k \in 1..Len(at) |-> Program(refs[at[k]].name, at[k])]

\* The programs pushed for a solution style tsconfig: one for every entry
\* of getResolvedProjectReferences() that is not undefined.
referencePrograms(in) ==
    IF Len(getRootFileNames(in)) = 0
    THEN LET refs == IF in.references.defined THEN in.references.list ELSE <<>>
             at == SelectSeq([i \in 1..Len(refs) |-> i], LAMBDA i : refs[i].resolved)
         IN  [k \in 1..Len(at) |-> Program(refs[at[k]].name, at[k])]
    ELSE <<>>

createPrograms(in) == <<primaryProgram(in)>> \o referencePrograms(in)

\* emitFunc keeps every diagnostic.
emitFuncKeepsAll(diagnostics) == diagnostics

\* emitFunc: the diagnostics of a program whose code is not ignored.
emitFunc(diagnostics) ==
    SelectSeq(diagnostics, LAMBDA code : code \notin IGNORED_DIAGNOSTICS)

\* Only the primary program is checked.
flatMapFirstOnly(diagnostics, i) ==
    IF i = 1 /\ Len(diagnostics) >= 1 THEN emitFunc(diagnostics[1]) ELSE <<>>

\* flatMap(programs, emitFunc), from program i on; diagnostics[i] is what
\* ts.getPreEmitDiagnostics answers for program i.
RECURSIVE flatMap(_, _)
flatMap(diagnostics, i) ==
    IF i > Len(diagnostics) THEN <<>>
    ELSE emitFunc(diagnostics[i]) \o flatMap(diagnostics, i + 1)

\* The messages logged before the programs are checked.
convertPreamble(in, progs) ==
    <<Log("verbose", "usingTypeScript", 0)>>
    \o (IF in.versionSupported THEN <<>> ELSE <<Log("warn", "unsupportedVersion", 0)>>)
    \o (IF allowJs \/ checkJs \/ in.otherCompilerOptions THEN <<>>
        ELSE <<Log("warn", "noCompilerOptions", 0)>>)
    \o (IF Len(getRootFileNames(in)) = 0
        THEN <<Log("verbose", "solutionStyle", 0)>> ELSE <<>>)
    \o <<Log("verbose", "convertingWithPrograms", Len(progs))>>

createCalls(progs) == [i \in 1..Len(progs) |-> Call("ts.createProgram", progs[i])]

diagnosticCalls(progs) ==
    [i \in 1..Len(progs) |-> Call("ts.getPreEmitDiagnostics", progs[i])]

\* The converter runs before the programs are checked.
convertChecksLate(in, diagnostics) ==
    LET progs == createPrograms(in)
        errors == flatMap(diagnostics, 1)
        expanded == expandInputFiles(in.entryPoints)
        early == createCalls(progs)
                 \o <<Call("expandInputFiles", in.entryPoints),
                      Call("converter.convert",
                           [files |-> expanded.files, programs |-> progs])>>
                 \o diagnosticCalls(progs)
    IN  IF Len(errors) > 0
        THEN [programs |-> progs,
              trace |-> early,
              log |-> convertPreamble(in, progs) \o expanded.log
                      \o <<Log("error", "diagnostics", errors)>>,
              returned |-> "undefined"]
        ELSE [programs |-> progs,
              trace |-> early,
              log |-> convertPreamble(in, progs) \o expanded.log,
              returned |-> in.converterResult]

\* convert(): the program list, the calls made, the messages logged and
\* the value returned.
convert(in, diagnostics) ==
    LET progs == createPrograms(in)
        errors == flatMap(diagnostics, 1)
        checked == createCalls(progs) \o diagnosticCalls(progs)
    IN  IF Len(errors) > 0
        THEN [programs |-> progs,
              trace |-> checked,
              log |-> convertPreamble(in, progs)
                      \o <<Log("error", "diagnostics", errors)>>,
              returned |-> "undefined"]
        ELSE LET expanded == expandInputFiles(in.entryPoints)
             IN  [programs |-> progs,
                  trace |-> checked
                            \o <<Call("expandInputFiles", in.entryPoints),
                                 Call("converter.convert",
                                      [files |-> expanded.files, programs |-> progs])>>,
                  log |-> convertPreamble(in, progs) \o expanded.log,
                  returned |-> in.converterResult]

(***************************************************************************)
(* The states convert is called in and the outcomes of its collaborators.  *)
(***************************************************************************)
\* What getPreEmitDiagnostics may answer for one program: codes on the
\* ignore list (1208, 7016) and codes that are not (2322).
DiagnosticLists == {<<>>, <<7016>>, <<2322>>, <<1208, 2322>>}

\* An entry of getResolvedProjectReferences(): a reference of the
\* configuration, resolved or undefined.
ResolvedReferences ==
    {[name |-> "refA", resolved |-> TRUE],
     [name |-> "refB", resolved |-> TRUE],
     [name |-> "refC", resolved |-> FALSE]}

ReferenceLists ==
    {[defined |-> FALSE, list |-> <<>>]}
    \cup {[defined |-> TRUE, list |-> l] : l \in SeqUpTo(ResolvedReferences, MaxReferences)}

ConvertInputs ==
    [rootNames : {<<>>, <<PathString(PA)>>},
     references : ReferenceLists,
     versionSupported : BOOLEAN,
     otherCompilerOptions : BOOLEAN,
     entryPoints : {<<PSrc>>, <<PNope, PTop>>},
     converterResult : {"projectA", "projectB", "undefined"}]

Init ==
    /\ InitIdle
    /\ fs \in {f \in FileSystems : f[PA] = "file" /\ f[PTop] = "file"}
    /\ exclude = {DirString(PGen)}
    /\ allowJs \in BOOLEAN
    /\ checkJs = FALSE

\* One call of convert.
Convert ==
    /\ op = "init"
    /\ \E in \in ConvertInputs :
        \E diagnostics \in [1..Len(createPrograms(in)) -> DiagnosticLists] :
            LET r == convert(in, diagnostics)
            IN  /\ cvIn' = [in |-> in, diagnostics |-> diagnostics]
                /\ programs' = r.programs
                /\ trace' = r.trace
                /\ logger' = r.log
                /\ returned' = r.returned
    /\ op' = "convert"
    /\ UNCHANGED <<appVars, expandVars, bsIn, reflVars>>

Next == Convert

Spec == Init /\ [][Next]_vars

(***************************************************************************)
(* Claims about convert.                                                   *)
(***************************************************************************)
CallsOf(name) == {i \in 1..Len(trace) : trace[i].call = name}

LogsOf(what) == {i \in 1..Len(logger) : logger[i].what = what}

\* The pre-emit diagnostics, over all programs of the call, whose code is
\* not on the ignore list.
BlockingDiagnostics ==
    UNION {{<<i, j>> : j \in {k \in 1..Len(cvIn.diagnostics[i]) :
                                cvIn.diagnostics[i][k] \notin IGNORED_DIAGNOSTICS}} :
           i \in 1..Len(programs)}

\* C1: when some program of the call has a diagnostic that is not ignored,
\* convert logs the blocking diagnostics, returns undefined and does not
\* invoke converter.convert.
C1_BlockingDiagnosticsAbort ==
    (op = "convert" /\ BlockingDiagnostics # {}) =>
        /\ returned = "undefined"
        /\ CallsOf("converter.convert") = {}
        /\ Cardinality(LogsOf("diagnostics")) = 1
        /\ \A k \in LogsOf("diagnostics") :
            /\ Len(logger[k].arg) = Cardinality(BlockingDiagnostics)
            /\ \A d \in BlockingDiagnostics :
                cvIn.diagnostics[d[1]][d[2]] \in Range(logger[k].arg)

\* The only blocking diagnostic is one of a reference program, and the
\* converter would have answered with a project.
C1_Witness ==
    /\ op = "convert"
    /\ Len(programs) = 3
    /\ BlockingDiagnostics # {}
    /\ \A d \in BlockingDiagnostics : d[1] = 3
    /\ cvIn.in.converterResult = "projectA"
    /\ returned = "undefined"

ReferenceList == IF cvIn.in.references.defined THEN cvIn.in.references.list ELSE <<>>

\* C2 as stated: with no root file name the list holds the primary program
\* and then one program for every project reference, in reference order;
\* with a root file name it holds the primary program only.
C2_OneProgramPerReference ==
    op = "convert" =>
        IF Len(cvIn.in.rootNames) = 0
        THEN /\ Len(programs) = 1 + Len(ReferenceList)
             /\ programs[1] = Program("primary", 0)
             /\ \A i \in 1..Len(ReferenceList) :
                    programs[i + 1] = Program(ReferenceList[i].name, i)
        ELSE programs = <<Program("primary", 0)>>

\* C2, amended: with no root file name the list holds the primary program
\* and then one program for every project reference that resolved, in
\* reference order, and none for a reference that did not resolve; with a
\* root file name it holds the primary program only.  The converter is
\* handed this list.
C2_OneProgramPerResolvedReference ==
    op = "convert" =>
        /\ programs[1] = Program("primary", 0)
        /\ Cardinality(CallsOf("ts.createProgram")) = Len(programs)
        /\ \A c \in CallsOf("converter.convert") : trace[c].arg.programs = programs
        /\ IF Len(cvIn.in.rootNames) = 0
           THEN /\ Len(programs)
                     = 1 + Cardinality({i \in 1..Len(ReferenceList) : ReferenceList[i].resolved})
                /\ \A k \in 2..Len(programs) :
                    /\ programs[k].pos \in 1..Len(ReferenceList)
                    /\ ReferenceList[programs[k].pos].resolved
                    /\ programs[k].from = ReferenceList[programs[k].pos].name
                    /\ k > 2 => programs[k - 1].pos < programs[k].pos
           ELSE Len(programs) = 1

\* A solution style configuration whose first reference did not resolve
\* and whose second did.
C2_Witness ==
    /\ op = "convert"
    /\ Len(cvIn.in.rootNames) = 0
    /\ Len(ReferenceList) = 2
    /\ ~ReferenceList[1].resolved
    /\ ReferenceList[2].resolved
    /\ programs = <<Program("primary", 0), Program(ReferenceList[2].name, 2)>>

\* C7: a call creates the primary program first, then the reference
\* programs, then reads the diagnostics of every program, and only then,
\* with nothing blocking, expands the entry points and invokes
\* converter.convert; every step is taken at most once.
C7_OneShotOrdered ==
    op = "convert" =>
        LET n == Len(programs)
        IN  /\ n >= 1
            /\ Len(trace) >= 2 * n
            /\ \A i \in 1..n : trace[i] = Call("ts.createProgram", programs[i])
            /\ \A i \in 1..n : trace[n + i] = Call("ts.getPreEmitDiagnostics", programs[i])
            /\ trace[1].arg = Program("primary", 0)
            /\ Cardinality(CallsOf("ts.createProgram")) = n
            /\ Cardinality(CallsOf("ts.getPreEmitDiagnostics")) = n
            /\ Cardinality(CallsOf("expandInputFiles")) <= 1
            /\ Cardinality(CallsOf("converter.convert")) <= 1
            /\ \A c \in CallsOf("converter.convert") :
                /\ BlockingDiagnostics = {}
                /\ c = Len(trace)
                /\ c = 2 * n + 2
                /\ trace[c - 1].call = "expandInputFiles"
            /\ \A e \in CallsOf("expandInputFiles") : e = 2 * n + 1
            /\ BlockingDiagnostics # {} => Len(trace) = 2 * n

\* The converter ran over three programs.
C7_Witness ==
    /\ op = "convert"
    /\ Len(programs) = 3
    /\ CallsOf("converter.convert") = {8}
    /\ returned = "projectB"

\* C8: when every diagnostic of every program is on the ignore list,
\* convert logs no diagnostics, invokes converter.convert exactly once, with
\* the expanded entry points and the whole program list, and returns what
\* that call returned.
C8_IgnoredDiagnosticsDoNotBlock ==
    (op = "convert" /\ BlockingDiagnostics = {}) =>
        /\ LogsOf("diagnostics") = {}
        /\ Cardinality(CallsOf("converter.convert")) = 1
        /\ \A c \in CallsOf("converter.convert") :
            /\ trace[c].arg.files = expandInputFiles(cvIn.in.entryPoints).files
            /\ trace[c].arg.programs = programs
        /\ returned = cvIn.in.converterResult

\* Ignored diagnostics were reported for the primary program and for a
\* reference program, and the converter's project came back.
C8_Witness ==
    /\ op = "convert"
    /\ Len(programs) >= 2
    /\ cvIn.diagnostics[1] = <<7016>>
    /\ cvIn.diagnostics[2] = <<7016>>
    /\ BlockingDiagnostics = {}
    /\ returned = "projectA"
    /\ \E c \in CallsOf("converter.convert") : trace[c].arg.files # <<>>

(***************************************************************************)
(* Application.bootstrap                                                   *)
(***************************************************************************)
\* The logger this.logger holds once loggerType has been read: a function
\* gives a CallbackLogger, "none" a Logger, anything else leaves the
\* ConsoleLogger of the constructor.
loggerAfterRead(in) ==
    IF in.loggerType = "function" THEN "CallbackLogger"
    ELSE IF in.loggerType = "none" THEN "Logger"
    ELSE "ConsoleLogger"

setLoggerCalls(in) ==
    IF in.loggerType \in {"function", "none"}
    THEN <<Call("options.setLogger", loggerAfterRead(in))>>
    ELSE <<>>

\* The try block encloses the whole loop: the first failure ends the pass.
RECURSIVE firstPassStopsAtFailure(_, _)
firstPassStopsAtFailure(in, i) ==
    IF i > Len(in.options) THEN <<>>
    ELSE <<Call("options.setValue", in.options[i])>>
         \o (IF in.options[i] \in in.throwsFirst THEN <<>>
             ELSE firstPassStopsAtFailure(in, i + 1))

\* The first loop over Object.entries(options), from entry i on: setValue
\* is tried for every entry and what it throws is dropped.
RECURSIVE firstPass(_, _)
firstPass(in, i) ==
    IF i > Len(in.options) THEN <<>>
    ELSE <<Call("options.setValue", in.options[i])>> \o firstPass(in, i + 1)

\* The second loop, from entry i on: what setValue throws is logged as an
\* error through this.logger.
RECURSIVE secondPass(_, _)
secondPass(in, i) ==
    IF i > Len(in.options) THEN <<>>
    ELSE <<Call("options.setValue", in.options[i])>>
         \o (IF in.options[i] \in in.throwsSecond
             THEN <<Call("logger.error",
                         [logger |-> loggerAfterRead(in), key |-> in.options[i]])>>
             ELSE <<>>)
         \o secondPass(in, i + 1)

\* bootstrap(options): the calls made, in order.
bootstrap(in) ==
    firstPass(in, 1)
    \o <<Call("options.read", "new Logger")>>
    \o setLoggerCalls(in)
    \o <<Call("options.getValue", "logLevel"),
         Call("plugins.load", ""),
         Call("options.reset", "")>>
    \o secondPass(in, 1)
    \o <<Call("options.read", loggerAfterRead(in))>>

(***************************************************************************)
(* The calls of bootstrap and the outcomes of its collaborators.           *)
(***************************************************************************)
OptionKeys == {"logger", "name", "pluginOption"}

\* Object.entries(options): the keys of the caller's object, each once.
OptionLists ==
    {l \in SeqUpTo(OptionKeys, MaxOptions) :
        \A i, j \in 1..Len(l) : i # j => l[i] # l[j]}

BootstrapInputs ==
    UNION {[options : {l},
            throwsFirst : SUBSET Range(l),
            throwsSecond : SUBSET Range(l),
            loggerType : {"function", "none", "console"}] : l \in OptionLists}

InitBootstrap ==
    /\ InitIdle
    /\ fs \in {f \in FileSystems : f[PA] = "file" /\ f[PTop] = "file" /\ f[PGen] = "file"}
    /\ exclude = {}
    /\ allowJs = FALSE
    /\ checkJs = FALSE

\* One call of bootstrap.
Bootstrap ==
    /\ op = "init"
    /\ \E in \in BootstrapInputs :
        /\ bsIn' = in
        /\ trace' = bootstrap(in)
    /\ op' = "bootstrap"
    /\ UNCHANGED <<appVars, expandVars, convertVars, logger, reflVars>>

NextBootstrap == Bootstrap

SpecBootstrap == InitBootstrap /\ [][NextBootstrap]_vars

(***************************************************************************)
(* Claims about bootstrap.                                                 *)
(***************************************************************************)
\* The places in the trace, after place from, where setValue is called.
SetValueCallsAfter(from) ==
    {i \in (from + 1)..Len(trace) : trace[i].call = "options.setValue"}

\* C9: the first pass tries every option and logs no failure; plugins.load
\* comes after the first options.read and right before options.reset; the
\* second pass tries every option again, logs each failure as an error
\* through the logger then in use and goes on; options.read comes last.
C9_TwoPassesAroundPluginLoad ==
    op = "bootstrap" =>
        LET n == Len(bsIn.options)
            last == Len(trace)
        IN  /\ \A i \in 1..n : trace[i] = Call("options.setValue", bsIn.options[i])
            /\ trace[n + 1] = Call("options.read", "new Logger")
            /\ CallsOf("options.read") = {n + 1, last}
            /\ Cardinality(CallsOf("plugins.load")) = 1
            /\ Cardinality(CallsOf("options.reset")) = 1
            /\ \A l \in CallsOf("plugins.load") :
                /\ l > n + 1
                /\ trace[l + 1].call = "options.reset"
                /\ CallsOf("logger.error") \subseteq (l + 2)..last
                /\ Cardinality(SetValueCallsAfter(l)) = n
                /\ \A i \in 1..n :
                    \E c \in SetValueCallsAfter(l) :
                        /\ trace[c].arg = bsIn.options[i]
                        /\ Cardinality({d \in SetValueCallsAfter(l) : d < c}) = i - 1
                        /\ IF bsIn.options[i] \in bsIn.throwsSecond
                           THEN trace[c + 1] =
                                   Call("logger.error",
                                        [logger |-> loggerAfterRead(bsIn),
                                         key |-> bsIn.options[i]])
                           ELSE trace[c + 1].call # "logger.error"
            /\ Cardinality(CallsOf("logger.error"))
                 = Cardinality(Range(bsIn.options) \cap bsIn.throwsSecond)
            /\ trace[last] = Call("options.read", loggerAfterRead(bsIn))

\* The first option fails in both passes, the second in none, and the
\* error goes to the callback logger.
C9_Witness ==
    /\ op = "bootstrap"
    /\ Len(bsIn.options) = 2
    /\ bsIn.options[1] \in bsIn.throwsFirst \cap bsIn.throwsSecond
    /\ bsIn.options[2] \notin bsIn.throwsFirst \cup bsIn.throwsSecond
    /\ bsIn.loggerType = "function"
    /\ \E e \in CallsOf("logger.error") : trace[e].arg.logger = "CallbackLogger"

(***************************************************************************)
(* JavaScript values.  An array is held by address: heap[at] is what it    *)
(* holds.  An object is known by its class and its identity.               *)
(***************************************************************************)
Undefined == [t |-> "undefined", v |-> <<>>, at |-> 0]

Str(chars) == [t |-> "string", v |-> chars, at |-> 0]

ArrayAt(a) == [t |-> "array", v |-> <<>>, at |-> a]

Object(class, id) == [t |-> "object", v |-> <<class>>, at |-> id]

\* if (x): undefined and the empty string are falsy, every array and every
\* object is truthy.
Truthy(x) ==
    /\ x.t # "undefined"
    /\ ~(x.t = "string" /\ x.v = <<>>)

\* x.toObject(), of a type.
TypeToObject(x) == [t |-> "object", v |-> x.v \o <<"toObject">>, at |-> x.at]

\* x instanceof ReflectionType
InstanceOfReflectionType(x) == x.t = "object" /\ x.v[1] = "ReflectionType"

\* this.type.declaration
DeclarationOf(x) == Object("DeclarationReflection", x.at + 1)

(***************************************************************************)
(* DeclarationReflection.getAllSignatures                                  *)
(***************************************************************************)
\* result = this.signatures: no copy is made.
concatAliasesSignatures(r, h, at) ==
    IF Truthy(r.signatures)
    THEN [heap |-> h, at |-> r.signatures.at]
    ELSE [heap |-> h, at |-> at]

\* if (this.signatures) result = result.concat(this.signatures): concat
\* answers with a new array.
concatSignatures(r, h, at) ==
    IF Truthy(r.signatures)
    THEN [heap |-> Append(h, h[at] \o h[r.signatures.at]), at |-> Len(h) + 1]
    ELSE [heap |-> h, at |-> at]

\* if (x) result.push(x)
pushIfPresent(st, x) ==
    IF Truthy(x) THEN [st EXCEPT !.heap[st.at] = Append(@, x)] ELSE st

\* getAllSignatures(): the heap after the call and the address returned.
getAllSignatures(r, h) ==
    LET fresh == [heap |-> Append(h, <<>>), at |-> Len(h) + 1]
        all == concatSignatures(r, fresh.heap, fresh.at)
    IN  pushIfPresent(
            pushIfPresent(
                pushIfPresent(all, r.indexSignature),
                r.getSignature),
            r.setSignature)

(***************************************************************************)
(* DeclarationReflection.traverse                                          *)
(***************************************************************************)
Callback(child, property) == Call("callback", [child |-> child, property |-> property])

CallbackEach(list, property) == [i \in 1..Len(list) |-> Callback(list[i], property)]

CallbackIfPresent(x, property) ==
    IF Truthy(x) THEN <<Callback(x, property)>> ELSE <<>>

\* The set signature is visited before the get signature, and the type
\* literal after the signatures.
traverseOutOfOrder(r, h) ==
    (IF Truthy(r.typeParameters)
     THEN CallbackEach(h[r.typeParameters.at], "TypeParameter") ELSE <<>>)
    \o (IF Truthy(r.signatures)
        THEN CallbackEach(h[r.signatures.at], "Signatures") ELSE <<>>)
    \o (IF InstanceOfReflectionType(r.type)
        THEN <<Callback(DeclarationOf(r.type), "TypeLiteral")>> ELSE <<>>)
    \o CallbackIfPresent(r.indexSignature, "IndexSignature")
    \o CallbackIfPresent(r.setSignature, "SetSignature")
    \o CallbackIfPresent(r.getSignature, "GetSignature")
    \o <<Call("super.traverse", "callback")>>

\* traverse(callback): the calls made, in order.
traverse(r, h) ==
    (IF Truthy(r.typeParameters)
     THEN CallbackEach(h[r.typeParameters.at], "TypeParameter") ELSE <<>>)
    \o (IF InstanceOfReflectionType(r.type)
        THEN <<Callback(DeclarationOf(r.type), "TypeLiteral")>> ELSE <<>>)
    \o (IF Truthy(r.signatures)
        THEN CallbackEach(h[r.signatures.at], "Signatures") ELSE <<>>)
    \o CallbackIfPresent(r.indexSignature, "IndexSignature")
    \o CallbackIfPresent(r.getSignature, "GetSignature")
    \o CallbackIfPresent(r.setSignature, "SetSignature")
    \o <<Call("super.traverse", "callback")>>

(***************************************************************************)
(* DeclarationReflection.toObject                                          *)
(***************************************************************************)
\* super.toObject(): the fields of the container reflection.
superToObject(r) == [k \in {"name"} |-> Str(<<"n">>)]

\* result[key] = value
SetField(st, key, value) ==
    [st EXCEPT !.result = [k \in DOMAIN @ \cup {key} |-> IF k = key THEN value ELSE @[k]]]

\* if (this[key]) result[key] = this[key].toObject()
typeField(st, r, key) ==
    IF Truthy(r[key]) THEN SetField(st, key, TypeToObject(r[key])) ELSE st

\* if (this[key]) result[key] = this[key].map((t) => t.toObject())
typeListField(st, r, key) ==
    IF Truthy(r[key])
    THEN LET list == st.heap[r[key].at]
             mapped == [i \in 1..Len(list) |-> TypeToObject(list[i])]
             after == [st EXCEPT !.heap = Append(@, mapped)]
         IN  SetField(after, key, ArrayAt(Len(after.heap)))
    ELSE st

\* if (this.defaultValue) result.defaultValue = this.defaultValue
defaultValueField(st, r) ==
    IF Truthy(r.defaultValue) THEN SetField(st, "defaultValue", r.defaultValue) ELSE st

\* toObject(): the heap after the call and the object returned.
toObject(r, h) ==
    LET s0 == [heap |-> h, result |-> superToObject(r)]
        s1 == typeField(s0, r, "type")
        s2 == defaultValueField(s1, r)
        s3 == typeField(s2, r, "overwrites")
        s4 == typeField(s3, r, "inheritedFrom")
        s5 == typeListField(s4, r, "extendedTypes")
        s6 == typeListField(s5, r, "extendedBy")
        s7 == typeListField(s6, r, "implementedTypes")
        s8 == typeListField(s7, r, "implementedBy")
    IN  typeField(s8, r, "implementationOf")

(***************************************************************************)
(* The reflections the methods are called on.                              *)
(***************************************************************************)
\* An optional list of at most n objects of a class: undefined, or an
\* array, which may be empty.
ListChoices(n, class, base) ==
    {[def |-> FALSE, list |-> <<>>]}
    \cup {[def |-> TRUE, list |-> [i \in 1..k |-> Object(class, base + i)]] : k \in 0..n}

Optional(x) == {Undefined, x}

ArrayOrUndefined(choice, at) == IF choice.def THEN ArrayAt(at) ELSE Undefined

\* The reflection with the given lists; its arrays lie at addresses 1 to 6.
Reflection(tps, sigs, ets, ebs, its, ibs, rest) ==
    [typeParameters |-> ArrayOrUndefined(tps, 1),
     signatures |-> ArrayOrUndefined(sigs, 2),
     extendedTypes |-> ArrayOrUndefined(ets, 3),
     extendedBy |-> ArrayOrUndefined(ebs, 4),
     implementedTypes |-> ArrayOrUndefined(its, 5),
     implementedBy |-> ArrayOrUndefined(ibs, 6),
     type |-> rest.type,
     indexSignature |-> rest.indexSignature,
     getSignature |-> rest.getSignature,
     setSignature |-> rest.setSignature,
     defaultValue |-> rest.defaultValue,
     overwrites |-> rest.overwrites,
     inheritedFrom |-> rest.inheritedFrom,
     implementationOf |-> rest.implementationOf]

NoList == [def |-> FALSE, list |-> <<>>]

InitApplicationUnused ==
    /\ fs \in {f \in FileSystems : f[PA] = "file" /\ f[PTop] = "file" /\ f[PGen] = "file"}
    /\ exclude = {}
    /\ allowJs = FALSE
    /\ checkJs = FALSE

\* A reflection with any structural children and nothing to serialize.
InitTraverse ==
    /\ InitCalls
    /\ InitApplicationUnused
    /\ \E tps \in ListChoices(MaxTypeParameters, "TypeParameterReflection", 10),
          sigs \in ListChoices(MaxSignatures, "SignatureReflection", 20),
          rest \in [type : {Undefined, Object("ReflectionType", 40),
                            Object("IntrinsicType", 42)},
                    indexSignature : Optional(Object("SignatureReflection", 31)),
                    getSignature : Optional(Object("SignatureReflection", 32)),
                    setSignature : Optional(Object("SignatureReflection", 33)),
                    defaultValue : {Undefined},
                    overwrites : {Undefined},
                    inheritedFrom : {Undefined},
                    implementationOf : {Undefined}] :
        /\ refl = Reflection(tps, sigs, NoList, NoList, NoList, NoList, rest)
        /\ heap = <<tps.list, sigs.list, <<>>, <<>>, <<>>, <<>>>>

\* One call of getAllSignatures.
GetAllSignatures ==
    /\ Len(heap) + 2 <= MaxHeap
    /\ LET r == getAllSignatures(refl, heap)
       IN  /\ heap' = r.heap
           /\ out' = ArrayAt(r.at)
    /\ op' = "getAllSignatures"
    /\ UNCHANGED <<appVars, expandVars, convertVars, logger, trace, bsIn, refl>>

\* One call of traverse.
Traverse ==
    /\ trace' = traverse(refl, heap)
    /\ op' = "traverse"
    /\ UNCHANGED <<appVars, expandVars, convertVars, logger, bsIn, reflVars>>

NextTraverse == GetAllSignatures \/ Traverse

SpecTraverse == InitTraverse /\ [][NextTraverse]_vars

\* A reflection with anything to serialize and no structural children.
InitToObject ==
    /\ InitCalls
    /\ InitApplicationUnused
    /\ \E ets \in ListChoices(MaxListLen, "ReferenceType", 60),
          ebs \in ListChoices(MaxListLen, "ReferenceType", 70),
          its \in ListChoices(MaxListLen, "ReferenceType", 80),
          ibs \in ListChoices(MaxListLen, "ReferenceType", 90),
          rest \in [type : Optional(Object("IntrinsicType", 42)),
                    indexSignature : {Undefined},
                    getSignature : {Undefined},
                    setSignature : {Undefined},
                    defaultValue : {Undefined, Str(<<>>), Str(<<"0">>)},
                    overwrites : Optional(Object("ReferenceType", 50)),
                    inheritedFrom : Optional(Object("ReferenceType", 51)),
                    implementationOf : Optional(Object("ReferenceType", 52))] :
        /\ refl = Reflection(NoList, NoList, ets, ebs, its, ibs, rest)
        /\ heap = <<<<>>, <<>>, ets.list, ebs.list, its.list, ibs.list>>

\* One call of toObject.
ToObject ==
    /\ op = "init"
    /\ LET r == toObject(refl, heap)
       IN  /\ heap' = r.heap
           /\ out' = r.result
    /\ op' = "toObject"
    /\ UNCHANGED <<appVars, expandVars, convertVars, logger, trace, bsIn, refl>>

NextToObject == ToObject

SpecToObject == InitToObject /\ [][NextToObject]_vars

(***************************************************************************)
(* Claims about DeclarationReflection.                                     *)
(***************************************************************************)
SerializedFields ==
    {"type", "defaultValue", "overwrites", "inheritedFrom", "extendedTypes",
     "extendedBy", "implementedTypes", "implementedBy", "implementationOf"}

\* Absent, the empty text or an empty list.
IsEmptyValue(x) ==
    \/ x.t = "undefined"
    \/ x.t = "string" /\ x.v = <<>>
    \/ x.t = "array" /\ heap[x.at] = <<>>

\* C4 as stated: each of the nine fields is in the object toObject returns
\* only when the reflection's value is not empty (not absent, not the empty
\* text, not an empty list), and what is written is never empty.
C4_FieldsPresentOnlyWhenNonEmpty ==
    op = "toObject" =>
        \A f \in SerializedFields :
            f \in DOMAIN out => (~IsEmptyValue(refl[f]) /\ ~IsEmptyValue(out[f]))

\* The children traverse is to visit in a role, in order.
ChildrenIn(property) ==
    CASE property = "TypeParameter" ->
            IF refl.typeParameters.t = "array" THEN heap[refl.typeParameters.at] ELSE <<>>
      [] property = "TypeLiteral" ->
            IF refl.type.t = "object" /\ refl.type.v = <<"ReflectionType">>
            THEN <<DeclarationOf(refl.type)>> ELSE <<>>
      [] property = "Signatures" ->
            IF refl.signatures.t = "array" THEN heap[refl.signatures.at] ELSE <<>>
      [] property = "IndexSignature" ->
            IF refl.indexSignature.t = "object" THEN <<refl.indexSignature>> ELSE <<>>
      [] property = "GetSignature" ->
            IF refl.getSignature.t = "object" THEN <<refl.getSignature>> ELSE <<>>
      [] property = "SetSignature" ->
            IF refl.setSignature.t = "object" THEN <<refl.setSignature>> ELSE <<>>

TraverseOrder ==
    <<"TypeParameter", "TypeLiteral", "Signatures", "IndexSignature",
      "GetSignature", "SetSignature">>

Rank(property) == CHOOSE k \in 1..Len(TraverseOrder) : TraverseOrder[k] = property

\* C5: traverse calls the callback once for every structural child, with
\* the role of its place, the roles in the fixed order and the children of
\* a role in list order, and runs the container traversal after all of
\* them; an absent child gets no callback.
C5_TraverseOrder ==
    op = "traverse" =>
        LET n == Len(trace) - 1
        IN  /\ n >= 0
            /\ trace[n + 1].call = "super.traverse"
            /\ \A i \in 1..n : trace[i].call = "callback"
            /\ \A i, j \in 1..n :
                i < j => Rank(trace[i].arg.property) <= Rank(trace[j].arg.property)
            /\ \A k \in 1..Len(TraverseOrder) :
                LET property == TraverseOrder[k]
                    at == SelectSeq([i \in 1..n |-> i],
                                    LAMBDA i : trace[i].arg.property = property)
                IN  /\ Len(at) = Len(ChildrenIn(property))
                    /\ \A m \in 1..Len(at) :
                        trace[at[m]].arg.child = ChildrenIn(property)[m]

\* Every role has a child and the lists two.
C5_Witness ==
    /\ op = "traverse"
    /\ Len(trace) = 9
    /\ Len(ChildrenIn("TypeParameter")) = 2
    /\ Len(ChildrenIn("Signatures")) = 2
    /\ trace[3].arg.property = "TypeLiteral"
    /\ trace[7].arg.property = "GetSignature"
    /\ trace[8].arg.property = "SetSignature"

PresentOf(list) == SelectSeq(list, LAMBDA x : x.t = "object")

\* C10: a call of getAllSignatures returns an array that did not exist
\* before the call, holding the signatures in their order and then the
\* index, get and set signature that are present, and leaves the
\* reflection and every array that existed as they were.
C10_GetAllSignaturesFresh ==
    [][op' = "getAllSignatures" =>
        LET signatures == IF refl.signatures.t = "array"
                          THEN heap[refl.signatures.at] ELSE <<>>
            special == PresentOf(<<refl.indexSignature, refl.getSignature,
                                   refl.setSignature>>)
        IN  /\ out'.t = "array"
            /\ out'.at \notin 1..Len(heap)
            /\ out'.at \in 1..Len(heap')
            /\ heap'[out'.at] = signatures \o special
            /\ Len(heap'[out'.at]) = Len(signatures) + Len(special)
            /\ refl' = refl
            /\ \A a \in 1..Len(heap) : heap'[a] = heap[a]]_vars

\* The second call on a reflection with two signatures, an index and a
\* set signature.
C10_Witness ==
    /\ op = "getAllSignatures"
    /\ Len(heap) >= 10
    /\ refl.signatures.t = "array"
    /\ Len(heap[refl.signatures.at]) = 2
    /\ refl.indexSignature.t = "object"
    /\ refl.getSignature.t = "undefined"
    /\ refl.setSignature.t = "object"
    /\ Len(heap[out.at]) = 4

====
